---- MODULE Spec2Model ----
(***************************************************************************)
(* The simulated file store of src/lib/terminal-vfs.ts (VirtualFileSystem). *)
(* Strings are sequences of one-character strings, so that split, filter,  *)
(* join, startsWith and the message templates are computed character by    *)
(* character as the code computes them.  Nodes live in an arena: a node is *)
(* its index, and `nodes` maps an index to the object's properties.        *)
(***************************************************************************)
EXTENDS Integers, Sequences, FiniteSets, TLC

VARIABLES
    nodes,       \* the FileSystemNode objects (lines 2-8), by arena index
    root,        \* this.root (line 11)
    currentDir,  \* this.currentDir (line 12)
    lastOp,      \* the method called last
    lastArgs,    \* the argument it was called with
    result,      \* what it returned
    prevDir      \* this.currentDir when it was called

vars == <<nodes, root, currentDir, lastOp, lastArgs, result, prevDir>>

(***************************************************************************)
(* String literals of the source.                                          *)
(***************************************************************************)
README_txt == <<"R", "E", "A", "D", "M", "E", ".", "t", "x", "t">>

members_txt == <<"m", "e", "m", "b", "e", "r", "s", ".", "t", "x", "t">>

flag_txt == <<"f", "l", "a", "g", ".", "t", "x", "t">>

exploits_name == <<"e", "x", "p", "l", "o", "i", "t", "s">>

tools_name == <<"t", "o", "o", "l", "s">>

secrets_name == <<"s", "e", "c", "r", "e", "t", "s">>

cve_py == <<"c", "v", "e", "-", "2", "0", "2", "4", "-", "1", "3", "3", "7", ".", "p", "y">>

buffer_overflow_c == <<"b", "u", "f", "f", "e", "r", "_", "o", "v", "e", "r", "f", "l", "o", "w", ".", "c">>

nmap_name == <<"n", "m", "a", "p">>

metasploit_name == <<"m", "e", "t", "a", "s", "p", "l", "o", "i", "t">>

passwords_txt == <<"p", "a", "s", "s", "w", "o", "r", "d", "s", ".", "t", "x", "t">>

README_content ==
    <<"W", "e", "l", "c", "o", "m", "e", " ", "t", "o", " ", "S", "A", "I", "C", " ", "C", "y",
      "b", "e", "r", "S", "e", "c", " ", "C", "l", "u", "b", ".", "\r", "\n", "W", "e", " ", "h",
      "a", "c", "k", ".", " ", "W", "e", " ", "l", "e", "a", "r", "n", ".", " ", "W", "e", " ",
      "d", "e", "f", "e", "n", "d", ".", "\r", "\n", "E", "t", "h", "i", "c", "a", "l", " ", "h",
      "a", "c", "k", "i", "n", "g", " ", "a", "t", " ", "I", "I", "T", " ", "M", "a", "n", "d",
      "i", ".">>

members_content ==
    <<"S", "A", "I", "C", " ", "C", "o", "r", "e", " ", "T", "e", "a", "m", " ", "M", "e", "m",
      "b", "e", "r", "s", ":", "\r", "\n", "\r", "\n", "C", "o", "o", "r", "d", "i", "n", "a", "t",
      "o", "r", ":", "\r", "\n", "-", " ", "A", "b", "h", "i", "n", "a", "n", "d", "a", "n", " ",
      "K", "u", "m", "a", "r", "\r", "\n", "\r", "\n", "C", "o", "r", "e", " ", "T", "e", "a", "m",
      ":", "\r", "\n", "-", " ", "S", "o", "m", "i", "t", " ", "G", "o", "n", "d", "\r", "\n", "-",
      " ", "A", "y", "u", "s", "h", " ", "G", "a", "u", "r", "a", "v", "\r", "\n", "-", " ", "U",
      "t", "s", "a", "v", "\r", "\n", "-", " ", "D", "i", "v", "y", "a", "n", "s", "h", "u", "\r",
      "\n", "-", " ", "A", "b", "h", "i", "j", "i", "t", "h", " ", "R", " ", "N", "a", "i", "r",
      "\r", "\n", "-", " ", "P", "r", "a", "n", "a", "v", " ", "S", "h", "i", "r", "b", "h", "a",
      "t", "e", "\r", "\n", "-", " ", "V", "i", "s", "h", "n", "u", "\r", "\n", "-", " ", "P", "i",
      "y", "u", "s", "h", " ", "P", "a", "n", "p", "a", "l", "i", "y", "a", "\r", "\n", "-", " ",
      "P", "i", "y", "u", "s", "h", " ", "D", "w", "i", "v", "e", "d", "i", "\r", "\n", "-", " ",
      "D", "a", "v", "d", "a", " ", "J", "a", "m", "e", "s", "\r", "\n", "-", " ", "A", "r", "a",
      "n", "i", " ", "G", "h", "o", "s", "h", "\r", "\n", "\r", "\n">>

flag_content ==
    <<"S", "A", "I", "C", "{", "w", "3", "l", "c", "0", "m", "3", "_", "7", "0", "_", "5", "4",
      "1", "c", "}">>

cve_content ==
    <<"#", " ", "E", "x", "p", "l", "o", "i", "t", " ", "f", "o", "r", " ", "C", "V", "E", "-",
      "2", "0", "2", "4", "-", "1", "3", "3", "7", "\n", "i", "m", "p", "o", "r", "t", " ", "o",
      "s", "\n", "p", "r", "i", "n", "t", "(", "\"", "E", "x", "p", "l", "o", "i", "t", "i", "n",
      "g", ".", ".", ".", "\"", ")">>

buffer_overflow_content ==
    <<"/", "/", " ", "B", "u", "f", "f", "e", "r", " ", "o", "v", "e", "r", "f", "l", "o", "w",
      " ", "e", "x", "a", "m", "p", "l", "e", "\n", "#", "i", "n", "c", "l", "u", "d", "e", " ",
      "<", "s", "t", "d", "i", "o", ".", "h", ">", "\n", "v", "o", "i", "d", " ", "m", "a", "i",
      "n", "(", ")", " ", "{", " ", "c", "h", "a", "r", " ", "b", "u", "f", "[", "1", "0", "]",
      ";", " ", "g", "e", "t", "s", "(", "b", "u", "f", ")", ";", " ", "}">>

nmap_content ==
    <<"#", "!", "/", "b", "i", "n", "/", "b", "a", "s", "h", "\n", "e", "c", "h", "o", " ", "\"",
      "N", "m", "a", "p", " ", "s", "c", "a", "n", " ", "i", "n", "i", "t", "i", "a", "t", "e",
      "d", ".", ".", ".", "\"">>

metasploit_content ==
    <<"#", "!", "/", "b", "i", "n", "/", "b", "a", "s", "h", "\n", "e", "c", "h", "o", " ", "\"",
      "S", "t", "a", "r", "t", "i", "n", "g", " ", "M", "e", "t", "a", "s", "p", "l", "o", "i",
      "t", " ", "F", "r", "a", "m", "e", "w", "o", "r", "k", ".", ".", ".", "\"">>

passwords_content ==
    <<"a", "d", "m", "i", "n", ":", "a", "d", "m", "i", "n", "1", "2", "3", "\n", "r", "o", "o",
      "t", ":", "t", "o", "o", "r">>

rootName == <<"/">>

cdPrefix == <<"c", "d", ":", " ">>

catPrefix == <<"c", "a", "t", ":", " ">>

lsPrefix ==
    <<"l", "s", ":", " ", "c", "a", "n", "n", "o", "t", " ", "a", "c", "c", "e", "s", "s", " ",
      "'">>

lsNoSuch ==
    <<"'", ":", " ", "N", "o", " ", "s", "u", "c", "h", " ", "f", "i", "l", "e", " ", "o", "r",
      " ", "d", "i", "r", "e", "c", "t", "o", "r", "y">>

findPrefix == <<"f", "i", "n", "d", ":", " ", "'">>

noSuchFile ==
    <<":", " ", "N", "o", " ", "s", "u", "c", "h", " ", "f", "i", "l", "e", " ", "o", "r", " ",
      "d", "i", "r", "e", "c", "t", "o", "r", "y">>

notADirectory == <<":", " ", "N", "o", "t", " ", "a", " ", "d", "i", "r", "e", "c", "t", "o", "r", "y">>

isADirectory == <<":", " ", "I", "s", " ", "a", " ", "d", "i", "r", "e", "c", "t", "o", "r", "y">>

missingOperand ==
    <<"c", "a", "t", ":", " ", "m", "i", "s", "s", "i", "n", "g", " ", "o", "p", "e", "r", "a",
      "n", "d">>

promptHome == <<"r", "o", "o", "t", "@", "s", "a", "i", "c", ":", "~", "$", " ">>

promptHead == <<"r", "o", "o", "t", "@", "s", "a", "i", "c", ":">>

promptTail == <<"$", " ">>

perm == <<"r", "w", "x", "r", "-", "x", "r", "-", "x">>

owner == <<" ", "1", " ", "r", "o", "o", "t", " ", "r", "o", "o", "t", " ">>

date == <<"N", "o", "v", " ", "1", "9", " ", "1", "0", ":", "0", "0">>

CRLF == <<"\r", "\n">>

twoSpaces == <<" ", " ">>

flagL == <<"-", "l">>

flagLA == <<"-", "l", "a">>

flagAL == <<"-", "a", "l">>

doesnotexist == <<"d", "o", "e", "s", "n", "o", "t", "e", "x", "i", "s", "t">>

cdCommand == <<"c", "d", " ">>

secr == <<"s", "e", "c", "r">>

digitChars == <<"0", "1", "2", "3", "4", "5", "6", "7", "8", "9">>

slash == "/"

dot == <<".">>

dotdot == <<".", ".">>

tilde == <<"~">>

\* JavaScript's undefined (the parent of the root) and null (resolvePath's miss).
undefined == 0

null == 0

(***************************************************************************)
(* String and array primitives used by the code.                           *)
(***************************************************************************)
RECURSIVE splitFrom(_, _, _)
\* s.split(sep) continued: `acc` is the piece being read.
splitFrom(s, sep, acc) ==
    IF s = <<>> THEN <<acc>>
    ELSE IF Head(s) = sep THEN <<acc>> \o splitFrom(Tail(s), sep, <<>>)
    ELSE splitFrom(Tail(s), sep, Append(acc, Head(s)))

\* String.prototype.split with a one-character separator: "" gives [""].
split(s, sep) == splitFrom(s, sep, <<>>)

RECURSIVE join(_, _)
\* Array.prototype.join.
join(parts, sep) ==
    IF parts = <<>> THEN <<>>
    ELSE IF Len(parts) = 1 THEN parts[1]
    ELSE parts[1] \o sep \o join(Tail(parts), sep)

\* String.prototype.startsWith.
startsWith(s, prefix) ==
    Len(prefix) <= Len(s) /\ SubSeq(s, 1, Len(prefix)) = prefix

\* Array.prototype.includes.
includes(arr, x) == \E i \in 1..Len(arr) : arr[i] = x

\* Whether the object has the (optional) property set to a value.
Has(node, field) == field \in DOMAIN node

(***************************************************************************)
(* The Builder: createInitialFileSystem and setParents.                    *)
(***************************************************************************)
createFile(name, content) == [name |-> name, type |-> "file", content |-> content]

createDir(name, children) == [name |-> name, type |-> "directory", children |-> children]

\* Arena indices of the objects createInitialFileSystem allocates.
rootId == 1
readme == 2
members == 3
flag == 4
exploits == 5
tools == 6
secrets == 7
cve == 8
bufferOverflow == 9
nmap == 10
metasploit == 11
passwords == 12

\* The tree before the parents are stamped.
builtTree ==
    (rootId :> createDir(rootName, <<readme, members, flag, exploits, tools, secrets>>))
    @@ (readme :> createFile(README_txt, README_content))
    @@ (members :> createFile(members_txt, members_content))
    @@ (flag :> createFile(flag_txt, flag_content))
    @@ (exploits :> createDir(exploits_name, <<cve, bufferOverflow>>))
    @@ (cve :> createFile(cve_py, cve_content))
    @@ (bufferOverflow :> createFile(buffer_overflow_c, buffer_overflow_content))
    @@ (tools :> createDir(tools_name, <<nmap, metasploit>>))
    @@ (nmap :> createFile(nmap_name, nmap_content))
    @@ (metasploit :> createFile(metasploit_name, metasploit_content))
    @@ (secrets :> createDir(secrets_name, <<passwords>>))
    @@ (passwords :> createFile(passwords_txt, passwords_content))

\* node.parent = parent
withParent(node, parent) ==
    [f \in DOMAIN node \cup {"parent"} |-> IF f = "parent" THEN parent ELSE node[f]]

RECURSIVE setParents(_, _, _)
RECURSIVE setParentsEach(_, _, _, _)
\* node.children.forEach(child => this.setParents(child, node)), from child i on.
setParentsEach(h, node, i, n) ==
    IF i > n THEN h
    ELSE setParentsEach(setParents(h, h[node].children[i], node), node, i + 1, n)

setParents(h, node, parent) ==
    LET h1 == [h EXCEPT ![node] = withParent(h[node], parent)]
    IN  IF Has(h1[node], "children")
        THEN setParentsEach(h1, node, 1, Len(h1[node].children))
        ELSE h1

createInitialFileSystem == setParents(builtTree, rootId, undefined)

(***************************************************************************)
(* The Navigator: resolvePath, getPwd, getPrompt.  `cur` is this.currentDir *)
(* at the time of the call.                                                *)
(***************************************************************************)
\* Mutant of parentOrRoot: the fallback to the root is missing.
parentNoFallback(current) == nodes[current].parent

\* current.parent || this.root
parentOrRoot(current) ==
    IF nodes[current].parent # undefined THEN nodes[current].parent ELSE root

RECURSIVE findChildSkipFirst(_, _, _)
\* Mutant of findChild: the search starts one child too late.
findChildSkipFirst(children, part, i) ==
    IF i + 1 > Len(children) THEN null
    ELSE IF nodes[children[i + 1]].name = part THEN children[i + 1]
    ELSE findChildSkipFirst(children, part, i + 1)

\* current.children.find(child => child.name === part), null for undefined.
RECURSIVE findChild(_, _, _)
findChild(children, part, i) ==
    IF i > Len(children) THEN null
    ELSE IF nodes[children[i]].name = part THEN children[i]
    ELSE findChild(children, part, i + 1)

RECURSIVE walk(_, _)
\* The for loop of resolvePath over the remaining parts.
walk(current, parts) ==
    IF parts = <<>> THEN current
    ELSE IF Head(parts) = dotdot THEN walk(parentOrRoot(current), Tail(parts))
    ELSE IF nodes[current].type # "directory" \/ ~Has(nodes[current], "children") THEN null
    ELSE LET found == findChild(nodes[current].children, Head(parts), 1)
         IN  IF found = null THEN null ELSE walk(found, Tail(parts))

\* Mutant of pathParts: only the empty segments are dropped.
pathPartsKeepDot(path) == SelectSeq(split(path, slash), LAMBDA p : p # <<>>)

\* path.split('/').filter(p => p && p !== '.')
pathParts(path) == SelectSeq(split(path, slash), LAMBDA p : p # <<>> /\ p # dot)

\* Mutant of resolvePath: a leading '/' does not restart the walk at the root.
resolvePathFromCur(cur, path) ==
    IF path = <<slash>> \/ path = tilde THEN root
    ELSE IF path = dot THEN cur
    ELSE IF path = dotdot THEN parentOrRoot(cur)
    ELSE walk(cur, pathParts(path))

\* Mutant of resolvePath: '~' is not one of the exact literals.
resolvePathNoTilde(cur, path) ==
    IF path = <<slash>> THEN root
    ELSE IF path = dot THEN cur
    ELSE IF path = dotdot THEN parentOrRoot(cur)
    ELSE walk(IF startsWith(path, <<slash>>) THEN root ELSE cur, pathParts(path))

resolvePath(cur, path) ==
    IF path = <<slash>> \/ path = tilde THEN root
    ELSE IF path = dot THEN cur
    ELSE IF path = dotdot THEN parentOrRoot(cur)
    ELSE walk(IF startsWith(path, <<slash>>) THEN root ELSE cur, pathParts(path))

RECURSIVE pwdNames(_)
\* The while loop of getPwd: the names from below the root down to `current`.
pwdNames(current) ==
    IF current # undefined /\ current # root
    THEN Append(pwdNames(nodes[current].parent), nodes[current].name)
    ELSE <<>>

\* Mutant of getPwd: the leading '/' is missing.
getPwdNoSlash(cur) == join(pwdNames(cur), <<slash>>)

getPwd(cur) == <<slash>> \o join(pwdNames(cur), <<slash>>)

getPrompt(cur) ==
    LET path == getPwd(cur)
    IN  IF path = <<slash>> THEN promptHome ELSE promptHead \o path \o promptTail

\* Mutant of cd: a path that does not resolve sends currentDir back to the root.
cdResetOnMiss(cur, path) ==
    IF path = <<>> \/ path = tilde THEN [dir |-> root, out |-> <<>>]
    ELSE LET node == resolvePath(cur, path)
         IN  IF node = null THEN [dir |-> root, out |-> cdPrefix \o path \o noSuchFile]
             ELSE IF nodes[node].type # "directory"
                  THEN [dir |-> cur, out |-> cdPrefix \o path \o notADirectory]
                  ELSE [dir |-> node, out |-> <<>>]

\* Mutant of cd: the kind of the node is not checked.
cdNoTypeCheck(cur, path) ==
    IF path = <<>> \/ path = tilde THEN [dir |-> root, out |-> <<>>]
    ELSE LET node == resolvePath(cur, path)
         IN  IF node = null THEN [dir |-> cur, out |-> cdPrefix \o path \o noSuchFile]
             ELSE [dir |-> node, out |-> <<>>]

\* Mutant of cd: '' and '~' are resolved like any other path.
cdNoHome(cur, path) ==
    LET node == resolvePath(cur, path)
    IN  IF node = null THEN [dir |-> cur, out |-> cdPrefix \o path \o noSuchFile]
        ELSE IF nodes[node].type # "directory"
             THEN [dir |-> cur, out |-> cdPrefix \o path \o notADirectory]
             ELSE [dir |-> node, out |-> <<>>]

\* Mutant of cd: the messages quote the path as the message of find does.
cdQuotedPath(cur, path) ==
    IF path = <<>> \/ path = tilde THEN [dir |-> root, out |-> <<>>]
    ELSE LET node == resolvePath(cur, path)
         IN  IF node = null
             THEN [dir |-> cur, out |-> cdPrefix \o <<"'">> \o path \o <<"'">> \o noSuchFile]
             ELSE IF nodes[node].type # "directory"
                  THEN [dir |-> cur,
                        out |-> cdPrefix \o <<"'">> \o path \o <<"'">> \o notADirectory]
                  ELSE [dir |-> node, out |-> <<>>]

\* The outcome of cd(path) from `cur`: the new currentDir and the string returned.
cd(cur, path) ==
    IF path = <<>> \/ path = tilde THEN [dir |-> root, out |-> <<>>]
    ELSE LET node == resolvePath(cur, path)
         IN  IF node = null THEN [dir |-> cur, out |-> cdPrefix \o path \o noSuchFile]
             ELSE IF nodes[node].type # "directory"
                  THEN [dir |-> cur, out |-> cdPrefix \o path \o notADirectory]
                  ELSE [dir |-> node, out |-> <<>>]

(***************************************************************************)
(* The query operations: ls, cat, find, getCompletions.                    *)
(***************************************************************************)
\* The size shown for a node without (or with empty) content.
dirSize == 4096

\* The width size.toString() is padded to.
sizeWidth == 5

RECURSIVE toString(_)
\* Number.prototype.toString for a natural number.
toString(n) ==
    IF n < 10 THEN <<digitChars[n + 1]>>
    ELSE toString(n \div 10) \o <<digitChars[(n % 10) + 1]>>

RECURSIVE padStart(_, _)
\* String.prototype.padStart with the default pad, a space.
padStart(s, width) == IF Len(s) >= width THEN s ELSE padStart(<<" ">> \o s, width)

\* One line of the long format.
longLine(child) ==
    LET type == IF nodes[child].type = "directory" THEN <<"d">> ELSE <<"-">>
        size == IF Has(nodes[child], "content") /\ nodes[child].content # <<>>
                THEN Len(nodes[child].content)
                ELSE dirSize
    IN  type \o perm \o owner \o padStart(toString(size), sizeWidth)
             \o <<" ">> \o date \o <<" ">> \o nodes[child].name

\* Mutant of shortName: a directory gets no '/' suffix.
shortNameBare(child) == nodes[child].name

\* One entry of the short format.
shortName(child) ==
    IF nodes[child].type = "directory" THEN nodes[child].name \o <<slash>>
    ELSE nodes[child].name

\* args[0] || '.'
lsTarget(args) == IF Len(args) = 0 \/ args[1] = <<>> THEN dot ELSE args[1]

isLong(args) == includes(args, flagLA) \/ includes(args, flagL) \/ includes(args, flagAL)

\* Mutant of ls: a file is not told apart from a directory without children.
lsNoFileCase(cur, args) ==
    LET targetPath == lsTarget(args)
        node == resolvePath(cur, targetPath)
    IN  IF node = null THEN lsPrefix \o targetPath \o lsNoSuch
        ELSE IF ~Has(nodes[node], "children") \/ Len(nodes[node].children) = 0 THEN <<>>
        ELSE LET children == nodes[node].children
             IN  IF isLong(args)
                 THEN join([i \in 1..Len(children) |-> longLine(children[i])], CRLF)
                 ELSE join([i \in 1..Len(children) |-> shortName(children[i])], twoSpaces)

ls(cur, args) ==
    LET targetPath == lsTarget(args)
        node == resolvePath(cur, targetPath)
    IN  IF node = null THEN lsPrefix \o targetPath \o lsNoSuch
        ELSE IF nodes[node].type = "file" THEN nodes[node].name
        ELSE IF ~Has(nodes[node], "children") \/ Len(nodes[node].children) = 0 THEN <<>>
        ELSE LET children == nodes[node].children
             IN  IF isLong(args)
                 THEN join([i \in 1..Len(children) |-> longLine(children[i])], CRLF)
                 ELSE join([i \in 1..Len(children) |-> shortName(children[i])], twoSpaces)

\* Mutant of cat: a directory is read like a file.
catNoDirCheck(cur, args) ==
    IF Len(args) = 0 THEN missingOperand
    ELSE LET path == args[1]
             node == resolvePath(cur, path)
         IN  IF node = null THEN catPrefix \o path \o noSuchFile
             ELSE IF Has(nodes[node], "content") THEN nodes[node].content ELSE <<>>

cat(cur, args) ==
    IF Len(args) = 0 THEN missingOperand
    ELSE LET path == args[1]
             node == resolvePath(cur, path)
         IN  IF node = null THEN catPrefix \o path \o noSuchFile
             ELSE IF nodes[node].type = "directory" THEN catPrefix \o path \o isADirectory
             ELSE IF Has(nodes[node], "content") THEN nodes[node].content ELSE <<>>

RECURSIVE traverse(_, _)
RECURSIVE traverseEach(_, _, _)
RECURSIVE traverseEachNoRootCase(_, _, _)
\* Mutant of traverseEach: the path '/' is not told apart.
traverseEachNoRootCase(children, currentPath, i) ==
    IF i > Len(children) THEN <<>>
    ELSE traverse(children[i], currentPath \o <<slash>> \o nodes[children[i]].name)
         \o traverseEachNoRootCase(children, currentPath, i + 1)

\* The for loop of traverse over node.children, from child i on.
traverseEach(children, currentPath, i) ==
    IF i > Len(children) THEN <<>>
    ELSE traverse(children[i],
                  IF currentPath = <<slash>>
                  THEN <<slash>> \o nodes[children[i]].name
                  ELSE currentPath \o <<slash>> \o nodes[children[i]].name)
         \o traverseEach(children, currentPath, i + 1)

\* Mutant of traverse: a directory is pushed after its contents.
traverseContentsFirst(node, currentPath) ==
    (IF nodes[node].type = "directory" /\ Has(nodes[node], "children")
     THEN traverseEach(nodes[node].children, currentPath, 1)
     ELSE <<>>)
    \o <<currentPath>>

\* The lines traverse pushes to results, in order.
traverse(node, currentPath) ==
    <<currentPath>>
    \o (IF nodes[node].type = "directory" /\ Has(nodes[node], "children")
        THEN traverseEach(nodes[node].children, currentPath, 1)
        ELSE <<>>)

\* find(path = '.'): args is the argument list, empty when path is omitted.
find(cur, args) ==
    LET path == IF Len(args) = 0 THEN dot ELSE args[1]
        startNode == resolvePath(cur, path)
    IN  IF startNode = null THEN findPrefix \o path \o lsNoSuch
        ELSE join(traverse(startNode, path), CRLF)

\* Mutant of lastIndexOf: the first occurrence is taken (indexOf).
firstIndexOf(s, c, i) ==
    IF \E j \in 1..i : s[j] = c
    THEN (CHOOSE j \in 1..i : s[j] = c /\ \A k \in 1..(j - 1) : s[k] # c) - 1
    ELSE -1

RECURSIVE lastIndexOf(_, _, _)
\* String.prototype.lastIndexOf, 0-based, -1 when absent; i is the 1-based scan position.
lastIndexOf(s, c, i) ==
    IF i = 0 THEN -1 ELSE IF s[i] = c THEN i - 1 ELSE lastIndexOf(s, c, i - 1)

\* String.prototype.substring(from) and substring(from, to), 0-based.
substring(s, from, to) == SubSeq(s, from + 1, to)

getCompletions(cur, input) ==
    LET tokens == split(input, " ")
        lastToken == tokens[Len(tokens)]
        lastSlashIndex == lastIndexOf(lastToken, slash, Len(lastToken))
        prefix == substring(lastToken, 0, lastSlashIndex)
        searchPath == IF lastSlashIndex = -1 THEN dot
                      ELSE IF prefix = <<>> THEN <<slash>> ELSE prefix
        partialName == IF lastSlashIndex = -1 THEN lastToken
                       ELSE substring(lastToken, lastSlashIndex + 1, Len(lastToken))
        dirNode == resolvePath(cur, searchPath)
    IN  IF dirNode = null THEN <<>>
        ELSE IF nodes[dirNode].type # "directory" \/ ~Has(nodes[dirNode], "children")
        THEN <<>>
        ELSE LET children == nodes[dirNode].children
                 matching == SelectSeq(children,
                                       LAMBDA c : startsWith(nodes[c].name, partialName))
             IN  [i \in 1..Len(matching) |-> shortName(matching[i])]

(***************************************************************************)
(* Inputs: the path expressions and argument lists the operations are      *)
(* called with.                                                            *)
(***************************************************************************)
MaxTokens == 2

Tokens == {<<slash>>, dot, dotdot, exploits_name, flag_txt}

RECURSIVE concat(_)
concat(ss) == IF ss = <<>> THEN <<>> ELSE Head(ss) \o concat(Tail(ss))

\* Every concatenation of at most MaxTokens tokens ("" included).
TokenPaths == UNION {{concat(ts) : ts \in [1..n -> Tokens]} : n \in 0..MaxTokens}

NodeIds == DOMAIN builtTree

\* The children of a node of the tree as built, <<>> for a file.
ChildrenOf(n) == IF Has(builtTree[n], "children") THEN builtTree[n].children ELSE <<>>

RECURSIVE Subtree(_)
\* The nodes reached from n by following children, n included.
Subtree(n) ==
    {n} \cup UNION {Subtree(ChildrenOf(n)[i]) : i \in 1..Len(ChildrenOf(n))}

RECURSIVE namesDown(_, _)
\* The names of the nodes on the chain of children from `from` (excluded) down to n.
namesDown(from, n) ==
    IF from = n THEN <<>>
    ELSE LET c == CHOOSE c \in NodeIds :
                     (\E i \in 1..Len(ChildrenOf(from)) : ChildrenOf(from)[i] = c)
                     /\ n \in Subtree(c)
         IN  <<builtTree[c].name>> \o namesDown(c, n)

\* '/' followed by the child names on the root-to-n chain joined by '/'.
AbsPath(n) == <<slash>> \o join(namesDown(rootId, n), <<slash>>)

\* The child names from c down to its descendant n joined by '/'.
RelPath(c, n) == join(namesDown(c, n), <<slash>>)

Directories == {n \in NodeIds : builtTree[n].type = "directory"}

AbsPaths == {AbsPath(n) : n \in NodeIds}

RelPaths == UNION {{RelPath(c, n) : n \in Subtree(c)} : c \in Directories}

Literals == {<<>>, tilde, dot, dotdot, rootName, doesnotexist}

\* '.', '..', trailing and repeated slashes and a missing name around a path.
Decorated ==
    UNION {{p \o <<slash>>, p \o <<slash, slash>>, p \o <<slash>> \o dot,
            p \o <<slash>> \o dotdot, p \o <<slash>> \o dotdot \o <<slash>>,
            dot \o <<slash>> \o p, dotdot \o <<slash>> \o p,
            dot \o <<slash>> \o p \o <<slash, slash>> \o dot,
            p \o <<slash>> \o dotdot \o <<slash>> \o p,
            <<slash>> \o p \o <<slash>>, p \o <<slash>> \o doesnotexist}
           : p \in {AbsPath(exploits), RelPath(rootId, exploits), RelPath(rootId, flag),
                    RelPath(rootId, cve), RelPath(exploits, cve)}}

Paths == TokenPaths \cup AbsPaths \cup RelPaths \cup Literals \cup Decorated

ArgPaths == AbsPaths \cup Literals

Flags == {flagL, flagLA, flagAL}

LsArgs ==
    {<<>>} \cup {<<p>> : p \in ArgPaths} \cup {<<f>> : f \in Flags}
    \cup {<<p, f>> : p \in ArgPaths, f \in Flags}
    \cup {<<f, p>> : f \in Flags, p \in Literals}

CatArgs == {<<>>} \cup {<<p>> : p \in ArgPaths \cup RelPaths}

\* Absolute and relative paths to a directory that are not in normal form.
UnnormalisedPaths ==
    {AbsPath(exploits) \o <<slash>>, <<slash>> \o AbsPath(exploits),
     AbsPath(exploits) \o <<slash>> \o dotdot, RelPath(rootId, exploits) \o <<slash>>,
     AbsPath(exploits) \o <<slash>> \o dotdot \o AbsPath(tools)}

FindArgs == {<<>>} \cup {<<p>> : p \in ArgPaths \cup RelPaths \cup UnnormalisedPaths}

CompletionInputs ==
    {command \o dir \o partial :
        command \in {<<>>, cdCommand},
        dir \in {<<>>, <<slash>>, exploits_name \o <<slash>>, AbsPath(tools) \o <<slash>>,
                 flag_txt \o <<slash>>, doesnotexist \o <<slash>>},
        partial \in {<<>>, secr, <<"S">>, <<"m">>}}

(***************************************************************************)
(* The state machine.  lastOp, lastArgs and result record the last call    *)
(* and what it returned; prevDir is currentDir when it was made.           *)
(***************************************************************************)
Init ==
    /\ nodes = createInitialFileSystem
    /\ root = rootId
    /\ currentDir = root
    /\ lastOp = "constructor"
    /\ lastArgs = <<>>
    /\ result = <<>>
    /\ prevDir = rootId

Cd ==
    \E path \in Paths \cup {getPwd(currentDir)} :
        LET r == cd(currentDir, path)
        IN  /\ currentDir' = r.dir
            /\ result' = r.out
            /\ lastOp' = "cd"
            /\ lastArgs' = path
            /\ prevDir' = currentDir
            /\ UNCHANGED <<nodes, root>>

\* Mutant of ResolvePath: the walk uses this.currentDir as its cursor and leaves it
\* on the node found.
ResolvePathMovingCursor ==
    \E path \in Paths :
        /\ result' = resolvePath(currentDir, path)
        /\ currentDir' = (IF resolvePath(currentDir, path) = null THEN currentDir
                          ELSE resolvePath(currentDir, path))
        /\ lastOp' = "resolvePath"
        /\ lastArgs' = path
        /\ prevDir' = currentDir
        /\ UNCHANGED <<nodes, root>>

ResolvePath ==
    \E path \in Paths :
        /\ result' = resolvePath(currentDir, path)
        /\ lastOp' = "resolvePath"
        /\ lastArgs' = path
        /\ prevDir' = currentDir
        /\ UNCHANGED <<nodes, root, currentDir>>

GetPwd ==
    /\ result' = getPwd(currentDir)
    /\ lastOp' = "getPwd"
    /\ lastArgs' = <<>>
    /\ prevDir' = currentDir
    /\ UNCHANGED <<nodes, root, currentDir>>

GetPrompt ==
    /\ result' = getPrompt(currentDir)
    /\ lastOp' = "getPrompt"
    /\ lastArgs' = <<>>
    /\ prevDir' = currentDir
    /\ UNCHANGED <<nodes, root, currentDir>>

Ls ==
    \E args \in LsArgs :
        /\ result' = ls(currentDir, args)
        /\ lastOp' = "ls"
        /\ lastArgs' = args
        /\ prevDir' = currentDir
        /\ UNCHANGED <<nodes, root, currentDir>>

Cat ==
    \E args \in CatArgs :
        /\ result' = cat(currentDir, args)
        /\ lastOp' = "cat"
        /\ lastArgs' = args
        /\ prevDir' = currentDir
        /\ UNCHANGED <<nodes, root, currentDir>>

Find ==
    \E args \in FindArgs :
        /\ result' = find(currentDir, args)
        /\ lastOp' = "find"
        /\ lastArgs' = args
        /\ prevDir' = currentDir
        /\ UNCHANGED <<nodes, root, currentDir>>

GetCompletions ==
    \E input \in CompletionInputs :
        /\ result' = getCompletions(currentDir, input)
        /\ lastOp' = "getCompletions"
        /\ lastArgs' = input
        /\ prevDir' = currentDir
        /\ UNCHANGED <<nodes, root, currentDir>>

Next == Cd \/ ResolvePath \/ GetPwd \/ GetPrompt \/ Ls \/ Cat \/ Find \/ GetCompletions

Spec == Init /\ [][Next]_vars

(***************************************************************************)
(* Properties.  They read the recorded call (lastOp, lastArgs, prevDir)    *)
(* and compare what it returned and where it left currentDir with the tree *)
(* as built, followed downwards through children only.                     *)
(***************************************************************************)
\* The directory of the tree that holds n among its children.
ParentOf(n) ==
    CHOOSE d \in NodeIds : \E i \in 1..Len(ChildrenOf(d)) : ChildrenOf(d)[i] = n

RECURSIVE ReachableFrom(_)
\* The nodes of the current heap reached from n by following children.
ReachableFrom(n) ==
    {n} \cup (IF Has(nodes[n], "children")
              THEN UNION {ReachableFrom(nodes[n].children[i]) :
                              i \in 1..Len(nodes[n].children)}
              ELSE {})

\* What the path of the recorded call resolves to, from where the call was made.
Resolved == resolvePath(prevDir, lastArgs)

IsDirectory(n) == n # null /\ builtTree[n].type = "directory"

IsFile(n) == n # null /\ builtTree[n].type = "file"

\* C1: a cd whose path resolves to nothing or to a file leaves currentDir where it
\* was and returns 'cd: <p>: No such file or directory', respectively
\* 'cd: <p>: Not a directory'; currentDir moves only when the path resolves to a
\* directory.
C1_CdFailureKeepsCurrentDir ==
    lastOp = "cd" =>
        /\ Resolved = null =>
               /\ currentDir = prevDir
               /\ result = cdPrefix \o lastArgs \o noSuchFile
        /\ IsFile(Resolved) =>
               /\ currentDir = prevDir
               /\ result = cdPrefix \o lastArgs \o notADirectory
        /\ ~IsDirectory(Resolved) => result # <<>>
        /\ currentDir # prevDir => IsDirectory(Resolved)

\* A cd to a file, made from below the root, has failed.
C1_Witness ==
    /\ lastOp = "cd"
    /\ prevDir = exploits
    /\ lastArgs = AbsPath(flag)
    /\ currentDir = exploits
    /\ result = cdPrefix \o AbsPath(flag) \o notADirectory

\* C2: currentDir is always a directory reached from the root by following children.
C2_CurrentDirIsReachableDirectory ==
    /\ currentDir \in ReachableFrom(root)
    /\ nodes[currentDir].type = "directory"

\* A failed cd made from a directory below the root.
C2_Witness ==
    /\ lastOp = "cd"
    /\ IsFile(Resolved)
    /\ currentDir = secrets

\* C3 as stated: getPwd called right after cd(p), for any p that resolves to a
\* directory, returns the absolute path of that directory.
C3_PwdAfterCdAnyPath ==
    [][(lastOp' = "getPwd" /\ lastOp = "cd" /\ IsDirectory(Resolved))
           => result' = AbsPath(Resolved)]_vars

\* C3 amended: the same for every non-empty p.
C3_PwdAfterCd ==
    [][(lastOp' = "getPwd" /\ lastOp = "cd" /\ lastArgs # <<>> /\ IsDirectory(Resolved))
           => result' = AbsPath(Resolved)]_vars

\* A cd by a path with '.', repeated and trailing slashes has moved below the root.
C3_Witness ==
    /\ lastOp = "cd"
    /\ lastArgs = dot \o <<slash>> \o exploits_name \o <<slash, slash>> \o dot
    /\ prevDir = rootId
    /\ currentDir = exploits
    /\ getPwd(currentDir) = AbsPath(exploits)

\* C4: cd(getPwd()) returns '' and leaves currentDir on the node it was on.
C4_CdPwdRoundTrip ==
    (lastOp = "cd" /\ lastArgs = getPwd(prevDir)) =>
        /\ result = <<>>
        /\ currentDir = prevDir

\* The round trip made from a directory below the root.
C4_Witness ==
    /\ lastOp = "cd"
    /\ prevDir = tools
    /\ lastArgs = getPwd(tools)
    /\ currentDir = tools

\* C5: resolvePath of a node's absolute path returns the node, from every current
\* directory, and resolvePath of the relative path from the current directory down
\* to one of its descendants returns the descendant.
C5_ReachableIsResolvable ==
    lastOp = "resolvePath" =>
        /\ \A n \in NodeIds : lastArgs = AbsPath(n) => result = n
        /\ \A n \in Subtree(prevDir) : lastArgs = RelPath(prevDir, n) => result = n

\* The absolute path of a file two levels down, resolved from another directory.
C5_Witness ==
    /\ lastOp = "resolvePath"
    /\ prevDir = exploits
    /\ lastArgs = AbsPath(metasploit)
    /\ result = metasploit

\* C6: resolvePath('..') returns the parent of the current directory, the root at
\* the root; cd('..') at the root returns '' and stays at the root.
C6_DotDot ==
    /\ (lastOp = "resolvePath" /\ lastArgs = dotdot) =>
           result = (IF prevDir = rootId THEN rootId ELSE ParentOf(prevDir))
    /\ (lastOp = "cd" /\ lastArgs = dotdot /\ prevDir = rootId) =>
           (result = <<>> /\ currentDir = rootId)

\* cd('..') made at the root.
C6_Witness ==
    /\ lastOp = "cd"
    /\ lastArgs = dotdot
    /\ prevDir = rootId
    /\ currentDir = rootId
    /\ result = <<>>

\* C7: resolvePath('/') and resolvePath('~') return the root, and the result for a
\* path that begins with '/' is the same from every directory.
C7_AbsoluteIgnoresCurrentDir ==
    lastOp = "resolvePath" =>
        /\ lastArgs \in {rootName, tilde} => result = rootId
        /\ startsWith(lastArgs, rootName) =>
               \A d \in Directories : resolvePath(d, lastArgs) = result

\* '/' resolved after a cd below the root.
C7_Witness ==
    /\ lastOp = "resolvePath"
    /\ lastArgs = rootName
    /\ prevDir = secrets
    /\ result = rootId

\* C8: cd('') and cd('~') return '' and set currentDir to the root.
C8_CdHome ==
    (lastOp = "cd" /\ lastArgs \in {<<>>, tilde}) =>
        /\ result = <<>>
        /\ currentDir = rootId

\* cd('') made below the root.
C8_Witness ==
    /\ lastOp = "cd"
    /\ lastArgs = <<>>
    /\ prevDir = exploits
    /\ currentDir = rootId

\* The long-format listing of a directory's children, one line per child.
LongListing(d) ==
    join([i \in 1..Len(ChildrenOf(d)) |-> longLine(ChildrenOf(d)[i])], CRLF)

\* C9: ls with only a long-format flag and no path lists the current directory in
\* long format.
C9_LsFlagOnly ==
    (lastOp = "ls" /\ Len(lastArgs) = 1 /\ lastArgs[1] \in Flags) =>
        result = LongListing(prevDir)

\* C10: ls of a path that resolves to a file returns the file's name, and ls of a
\* directory without children returns '', with or without a long-format flag.
C10_LsFileAndEmptyDirectory ==
    (lastOp = "ls" /\ Len(lastArgs) >= 1 /\ lastArgs[1] # <<>>) =>
        LET node == resolvePath(prevDir, lastArgs[1])
        IN  /\ IsFile(node) => result = builtTree[node].name
            /\ (IsDirectory(node) /\ ChildrenOf(node) = <<>>) => result = <<>>

\* ls -l of a file two levels down.
C10_Witness ==
    /\ lastOp = "ls"
    /\ lastArgs = <<AbsPath(cve), flagL>>
    /\ result = cve_py

exploitsListing ==
    <<"c", "v", "e", "-", "2", "0", "2", "4", "-", "1", "3", "3", "7", ".", "p", "y", " ", " ",
      "b", "u", "f", "f", "e", "r", "_", "o", "v", "e", "r", "f", "l", "o", "w", ".", "c">>

exploitsPwd == <<"/", "e", "x", "p", "l", "o", "i", "t", "s">>

\* A name as the short format shows it: a directory's with '/' appended.
EntryOf(n) ==
    IF builtTree[n].type = "directory" THEN builtTree[n].name \o <<"/">>
    ELSE builtTree[n].name

\* The node an ls call lists: the current directory when no path (or '') comes first.
LsTargetNode ==
    IF lastArgs = <<>> \/ lastArgs[1] = <<>> THEN prevDir
    ELSE resolvePath(prevDir, lastArgs[1])

HasFlag(args) == \E i \in 1..Len(args) : args[i] \in Flags

\* C11: ls without a long-format flag of a directory with children returns the
\* children's names in stored order, directories with '/' appended, joined by two
\* spaces; in /exploits it returns 'cve-2024-1337.py  buffer_overflow.c', getPwd
\* returns '/exploits' there and '/' at the root, where cd('..') leads.
C11_ShortListing ==
    /\ (lastOp = "ls" /\ ~HasFlag(lastArgs)
            /\ IsDirectory(LsTargetNode) /\ ChildrenOf(LsTargetNode) # <<>>) =>
           result = join([i \in 1..Len(ChildrenOf(LsTargetNode)) |->
                              EntryOf(ChildrenOf(LsTargetNode)[i])], <<" ", " ">>)
    /\ (lastOp = "ls" /\ lastArgs = <<>> /\ prevDir = exploits) => result = exploitsListing
    /\ (lastOp = "getPwd" /\ prevDir = exploits) => result = exploitsPwd
    /\ (lastOp = "getPwd" /\ prevDir = rootId) => result = <<"/">>
    /\ (lastOp = "cd" /\ lastArgs = dotdot /\ prevDir = exploits) =>
           (result = <<>> /\ currentDir = rootId)

\* ls([]) made in /exploits.
C11_Witness ==
    /\ lastOp = "ls"
    /\ lastArgs = <<>>
    /\ prevDir = exploits
    /\ result = exploitsListing

flagText ==
    <<"S", "A", "I", "C", "{", "w", "3", "l", "c", "0", "m", "3", "_", "7", "0", "_", "5", "4",
      "1", "c", "}">>

catOfEmptyPath ==
    <<"c", "a", "t", ":", " ", ":", " ", "I", "s", " ", "a", " ", "d", "i", "r", "e", "c", "t",
      "o", "r", "y">>

\* C12: cat without arguments returns 'cat: missing operand'; otherwise its first
\* argument decides: a path that does not resolve gives the not-found message, a
\* directory gives 'cat: <path>: Is a directory', a file gives its content
\* verbatim (flag.txt at the root: 'SAIC{w3lc0m3_70_541c}'); currentDir stays.
C12_CatClassifies ==
    lastOp = "cat" =>
        /\ currentDir = prevDir
        /\ lastArgs = <<>> => result = missingOperand
        /\ lastArgs # <<>> =>
               LET path == lastArgs[1]
                   node == resolvePath(prevDir, path)
               IN  /\ node = null => result = catPrefix \o path \o noSuchFile
                   /\ IsDirectory(node) => result = catPrefix \o path \o isADirectory
                   /\ IsFile(node) => result = builtTree[node].content
        /\ (lastArgs = <<flag_txt>> /\ prevDir = rootId) => result = flagText

\* cat(['']) made below the root: the empty path is the current directory.
C12_Witness ==
    /\ lastOp = "cat"
    /\ lastArgs = << <<>> >>
    /\ prevDir = exploits
    /\ currentDir = exploits
    /\ result = catOfEmptyPath

cdName == <<"c", "d">>
catName == <<"c", "a", "t">>
lsName == <<"l", "s">>
findName == <<"f", "i", "n", "d">>

reasonNoSuchFile ==
    <<"N", "o", " ", "s", "u", "c", "h", " ", "f", "i", "l", "e", " ", "o", "r", " ", "d", "i",
      "r", "e", "c", "t", "o", "r", "y">>

reasonNotADirectory == <<"N", "o", "t", " ", "a", " ", "d", "i", "r", "e", "c", "t", "o", "r", "y">>

reasonIsADirectory == <<"I", "s", " ", "a", " ", "d", "i", "r", "e", "c", "t", "o", "r", "y">>

findMissing ==
    <<"f", "i", "n", "d", ":", " ", "'", "d", "o", "e", "s", "n", "o", "t", "e", "x", "i", "s",
      "t", "'", ":", " ", "N", "o", " ", "s", "u", "c", "h", " ", "f", "i", "l", "e", " ", "o",
      "r", " ", "d", "i", "r", "e", "c", "t", "o", "r", "y">>

Reasons == {reasonNoSuchFile, reasonNotADirectory, reasonIsADirectory}

\* '<operation>: <path>: <reason>' with the path as given.
HasIdiomShape(op, path, res) ==
    \E reason \in Reasons : res = op \o <<":", " ">> \o path \o <<":", " ">> \o reason

\* The path a find call starts from.
FindPath == IF lastArgs = <<>> THEN dot ELSE lastArgs[1]

CdFailed == lastOp = "cd" /\ ~IsDirectory(Resolved)

CatFailed == lastOp = "cat" /\ lastArgs # <<>> /\ ~IsFile(resolvePath(prevDir, lastArgs[1]))

LsFailed == lastOp = "ls" /\ LsTargetNode = null

FindFailed == lastOp = "find" /\ resolvePath(prevDir, FindPath) = null

\* C13 as stated: the error results of cd, cat, ls and find all have the shape
\* '<operation>: <path>: <reason>'.
C13_ErrorIdiomEverywhere ==
    /\ CdFailed => HasIdiomShape(cdName, lastArgs, result)
    /\ CatFailed => HasIdiomShape(catName, lastArgs[1], result)
    /\ LsFailed => HasIdiomShape(lsName, lastArgs[1], result)
    /\ FindFailed => HasIdiomShape(findName, FindPath, result)

\* C13 amended: the error results of cd and cat have that shape; ls returns
\* "ls: cannot access '<path>': No such file or directory" and find returns
\* "find: '<path>': No such file or directory", the path as given inside quotes.
C13_ErrorMessages ==
    /\ CdFailed => HasIdiomShape(cdName, lastArgs, result)
    /\ CatFailed => HasIdiomShape(catName, lastArgs[1], result)
    /\ LsFailed => result = lsPrefix \o lastArgs[1] \o lsNoSuch
    /\ FindFailed => result = findPrefix \o FindPath \o lsNoSuch

\* find of a missing name has failed.
C13_Witness ==
    /\ lastOp = "find"
    /\ lastArgs = <<doesnotexist>>
    /\ result = findMissing

RECURSIVE PreOrder(_)
RECURSIVE PreOrderEach(_, _)
\* The pre-order walks of the children from the i-th on, one after the other.
PreOrderEach(children, i) ==
    IF i > Len(children) THEN <<>>
    ELSE PreOrder(children[i]) \o PreOrderEach(children, i + 1)

\* The nodes below and including n: n, then each child's walk in stored order.
PreOrder(n) == <<n>> \o PreOrderEach(ChildrenOf(n), 1)

\* The positions where a '\r\n' starts.
Breaks(s) == {i \in 1..(Len(s) - 1) : s[i] = "\r" /\ s[i + 1] = "\n"}

\* The k-th of them, from the left.
BreakAt(s, k) == CHOOSE b \in Breaks(s) : Cardinality({c \in Breaks(s) : c < b}) = k - 1

\* The lines of a text whose lines are separated by '\r\n'.
Lines(s) ==
    LET n == Cardinality(Breaks(s))
    IN  [k \in 1..(n + 1) |->
            SubSeq(s, IF k = 1 THEN 1 ELSE BreakAt(s, k - 1) + 2,
                      IF k = n + 1 THEN Len(s) ELSE BreakAt(s, k) - 1)]

\* The node a find call starts from, null when its path does not resolve.
FindStart == resolvePath(prevDir, FindPath)

\* The line of node n in a find that starts at `start`, given as `path`.
DisplayOf(start, path, n) ==
    IF n = start THEN path
    ELSE (IF path = <<"/">> THEN <<>> ELSE path) \o <<"/">> \o RelPath(start, n)

\* C14: find emits one line per node of the subtree of its start node, none
\* left out or repeated, in pre-order with siblings in stored order; find('.')
\* lists './<name>' exactly once for each child of the current directory.
C14_FindPreOrder ==
    (lastOp = "find" /\ FindStart # null) =>
        LET lines == Lines(result)
            order == PreOrder(FindStart)
        IN  /\ Len(lines) = Cardinality(Subtree(FindStart))
            /\ Len(order) = Len(lines)
            /\ {order[i] : i \in 1..Len(order)} = Subtree(FindStart)
            /\ \A i \in 1..Len(order) : lines[i] = DisplayOf(FindStart, FindPath, order[i])
            /\ FindPath = dot =>
                   \A k \in 1..Len(ChildrenOf(prevDir)) :
                       Cardinality({i \in 1..Len(lines) :
                           lines[i] = <<".", "/">>
                                      \o builtTree[ChildrenOf(prevDir)[k]].name}) = 1

\* find() made at the root lists the twelve nodes.
C14_Witness ==
    /\ lastOp = "find"
    /\ lastArgs = <<>>
    /\ prevDir = rootId
    /\ Len(Lines(result)) = Cardinality(NodeIds)
    /\ Lines(result)[5] = <<".", "/">> \o exploits_name
    /\ Lines(result)[6] = <<".", "/">> \o exploits_name \o <<"/">> \o cve_py

findExploitsSlash == <<"/", "e", "x", "p", "l", "o", "i", "t", "s", "/">>

findExploitsSlashChild ==
    <<"/", "e", "x", "p", "l", "o", "i", "t", "s", "/", "/", "c", "v", "e", "-", "2", "0", "2",
      "4", "-", "1", "3", "3", "7", ".", "p", "y">>

\* The position of node n in the walk `order`.
IndexIn(order, n) == CHOOSE i \in 1..Len(order) : order[i] = n

\* C15 as stated: the first line of find is the path as given when it is relative
\* and the absolute path of the start node when it begins with '/'; every other
\* line is the line of the node's parent with '/<name>' appended.
C15_FindDisplayNormalised ==
    (lastOp = "find" /\ FindStart # null) =>
        LET lines == Lines(result)
            order == PreOrder(FindStart)
        IN  /\ Len(lines) = Len(order)
            /\ lines[1] = (IF startsWith(FindPath, <<"/">>) THEN AbsPath(FindStart)
                           ELSE FindPath)
            /\ \A i \in 2..Len(order) :
                   lines[i] = lines[IndexIn(order, ParentOf(order[i]))]
                              \o <<"/">> \o builtTree[order[i]].name

\* C15 amended: the first line is the path as given, relative or absolute; every
\* other line is the line of the node's parent with '/<name>' appended, except that
\* below a parent whose line is '/' it is '/<name>'.
C15_FindDisplay ==
    (lastOp = "find" /\ FindStart # null) =>
        LET lines == Lines(result)
            order == PreOrder(FindStart)
        IN  /\ Len(lines) = Len(order)
            /\ lines[1] = FindPath
            /\ \A i \in 2..Len(order) :
                   LET above == lines[IndexIn(order, ParentOf(order[i]))]
                   IN  lines[i] = (IF above = <<"/">> THEN <<>> ELSE above)
                                  \o <<"/">> \o builtTree[order[i]].name

\* find('/exploits/') keeps the trailing slash in every line.
C15_Witness ==
    /\ lastOp = "find"
    /\ lastArgs = <<findExploitsSlash>>
    /\ Lines(result)[1] = findExploitsSlash
    /\ Lines(result)[2] = findExploitsSlashChild

cdSecr == <<"c", "d", " ", "s", "e", "c", "r">>
secretsSlash == <<"s", "e", "c", "r", "e", "t", "s", "/">>

\* The positions of character c in s.
Occurrences(s, c) == {i \in 1..Len(s) : s[i] = c}

\* The greatest element of a non-empty set of numbers.
Last(S) == CHOOSE i \in S : \A j \in S : j <= i

\* What follows the last c in s (s itself without a c) and what precedes it.
AfterLast(s, c) ==
    IF Occurrences(s, c) = {} THEN s ELSE SubSeq(s, Last(Occurrences(s, c)) + 1, Len(s))

BeforeLast(s, c) == SubSeq(s, 1, Last(Occurrences(s, c)) - 1)

\* The token a getCompletions call completes, its directory and its partial name.
CompletedToken == AfterLast(lastArgs, " ")

CompletionDir ==
    IF Occurrences(CompletedToken, "/") = {} THEN prevDir
    ELSE IF BeforeLast(CompletedToken, "/") = <<>> THEN rootId
    ELSE resolvePath(prevDir, BeforeLast(CompletedToken, "/"))

PartialName == AfterLast(CompletedToken, "/")

IsPrefix(p, s) == Len(p) <= Len(s) /\ \A i \in 1..Len(p) : s[i] = p[i]

\* The children of d whose name starts with the partial name, as suggestions.
Suggestions(d) ==
    LET matching == SelectSeq(ChildrenOf(d), LAMBDA c : IsPrefix(PartialName, builtTree[c].name))
    IN  [i \in 1..Len(matching) |-> EntryOf(matching[i])]

\* C16: getCompletions completes the last space-delimited token in the directory
\* before its last '/' (the current directory without a '/', the root for an empty
\* prefix): the children whose name starts with the rest, in stored order,
\* directories with '/'; the empty list when that directory does not resolve or is
\* a file; currentDir stays.  'cd secr' at the root gives ['secrets/'].
C16_Completions ==
    lastOp = "getCompletions" =>
        /\ currentDir = prevDir
        /\ IsDirectory(CompletionDir) => result = Suggestions(CompletionDir)
        /\ ~IsDirectory(CompletionDir) => result = <<>>
        /\ (lastArgs = cdSecr /\ prevDir = rootId) => result = <<secretsSlash>>

\* 'cd secr' completed at the root.
C16_Witness ==
    /\ lastOp = "getCompletions"
    /\ lastArgs = cdSecr
    /\ prevDir = rootId
    /\ result = <<secretsSlash>>

\* The node the walk of the recorded path starts at.
WalkStart == IF startsWith(lastArgs, <<"/">>) THEN rootId ELSE prevDir

\* The walk of the recorded path stands on a file while a segment remains: some
\* proper prefix of its segments leads to a file.
WalkMeetsFile ==
    /\ lastArgs \notin {rootName, tilde, dot, dotdot}
    /\ \E k \in 0..(Len(pathParts(lastArgs)) - 1) :
           IsFile(walk(WalkStart, SubSeq(pathParts(lastArgs), 1, k)))

\* C17: when the walk stands on a file and a segment remains, a name or '..',
\* resolvePath returns null, and cd of such a path fails and stays.
C17_FileHasNoSegments ==
    /\ (lastOp = "resolvePath" /\ WalkMeetsFile) => result = null
    /\ (lastOp = "cd" /\ WalkMeetsFile) => (result # <<>> /\ currentDir = prevDir)

\* The same for a remaining segment that is a name, not '..'.
FileHasNoNamedSegments ==
    (lastOp = "resolvePath"
         /\ \E k \in 0..(Len(pathParts(lastArgs)) - 1) :
                /\ IsFile(walk(WalkStart, SubSeq(pathParts(lastArgs), 1, k)))
                /\ pathParts(lastArgs)[k + 1] # dotdot
         /\ lastArgs \notin {rootName, tilde, dot, dotdot})
        => result = null

doubleSlash == <<"/", "/">>
exploitsDecorated == <<".", "/", "e", "x", "p", "l", "o", "i", "t", "s", "/", "/", ".">>

\* p with one more '/' next to one of its '/', with a trailing '/', or with a '.'
\* segment after one of its '/', at its end, or in front when p is relative.
Renormalised(p) ==
    {SubSeq(p, 1, i) \o <<"/">> \o SubSeq(p, i + 1, Len(p)) : i \in Occurrences(p, "/")}
    \cup {SubSeq(p, 1, i) \o <<".", "/">> \o SubSeq(p, i + 1, Len(p)) : i \in Occurrences(p, "/")}
    \cup {p \o <<"/">>, p \o <<"/", ".">>}
    \cup (IF startsWith(p, <<"/">>) THEN {} ELSE {<<".", "/">> \o p})

ExactLiterals == {rootName, tilde, dot, dotdot}

\* C18 as stated: for every path but the exact literals, resolvePath gives the same
\* result for the path with slashes repeated or appended and '.' segments added.
C18_NormalisationAnyPath ==
    (lastOp = "resolvePath" /\ lastArgs \notin ExactLiterals) =>
        \A q \in Renormalised(lastArgs) : resolvePath(prevDir, q) = result

\* C18 amended: the same for every non-empty path but the exact literals;
\* 'exploits', 'exploits/' and './exploits//.' resolve alike and '//' is the root.
C18_Normalisation ==
    lastOp = "resolvePath" =>
        /\ (lastArgs \notin ExactLiterals /\ lastArgs # <<>>) =>
               \A q \in Renormalised(lastArgs) : resolvePath(prevDir, q) = result
        /\ lastArgs \in {exploits_name \o <<"/">>, exploitsDecorated} =>
               result = resolvePath(prevDir, exploits_name)
        /\ lastArgs = doubleSlash => result = rootId

\* './exploits//.' resolved at the root.
C18_Witness ==
    /\ lastOp = "resolvePath"
    /\ lastArgs = exploitsDecorated
    /\ prevDir = rootId
    /\ result = exploits

\* C19: a cd that succeeded, repeated with the same path, leaves currentDir where
\* the first call put it.
C19_CdTwice ==
    [][(lastOp = "cd" /\ result = <<>> /\ lastOp' = "cd" /\ lastArgs' = lastArgs)
           => currentDir' = currentDir]_vars

\* cd('exploits') made in /exploits: the repeat of the call that led there.
C19_Witness ==
    /\ lastOp = "cd"
    /\ lastArgs = exploits_name
    /\ prevDir = exploits
    /\ currentDir = exploits

\* C20: every operation but cd leaves currentDir alone, and no operation changes
\* the tree or the root.
C20_Frame ==
    [][/\ lastOp' # "cd" => currentDir' = currentDir
       /\ nodes' = nodes
       /\ root' = root]_vars

\* A find made below the root, the tree as built.
C20_Witness ==
    /\ lastOp = "find"
    /\ prevDir = tools
    /\ currentDir = tools
    /\ nodes = createInitialFileSystem
    /\ root = rootId

====
